---- MODULE Spec2Model ----
(***************************************************************************)
(* Model of custom_components/heos_queue_mgr/__init__.py: the four HEOS    *)
(* queue services (clear_queue, clear_queue_except_now_playing, get_queue, *)
(* remove_from_queue) and async_exec_command, which runs a per-entity      *)
(* handler over the entities a service call selects.                       *)
(*                                                                         *)
(* One behaviour is one service call.  A coroutine is cut at its awaits:   *)
(* an action runs from one await to the next.  The HEOS connection is the  *)
(* environment: every reply to a command is a nondeterministic choice      *)
(* between a successful response, an unsuccessful response (result false)  *)
(* and a raised HeosError.                                                 *)
(***************************************************************************)
EXTENDS Integers, Sequences, FiniteSets

VARIABLES
    pc,               \* position of the service callback
    op,               \* name of the service that was called
    data,             \* service_call.data
    return_response,  \* service_call.return_response
    selector,         \* entity ids the service call targets
    pending,          \* entity platforms not yet asked (for ep in entity_platforms)
    entity_list,      \* async_exec_command: one extracted list per platform
    entities,         \* async_exec_command: entities the for loop has still to visit
    cur,              \* entity_id of the running handler, "none" outside a handler
    step,             \* command the running handler awaits, "none" outside a handler
    queued_entries,   \* ClearQueueExceptNowPlaying.handler local, <<>> outside it
    playing_qid,      \* ClearQueueExceptNowPlaying.handler local, 0 outside it
    cmds,             \* per entity: the commands sent on its connection, with replies
    calls,            \* per entity: number of handler invocations
    returned,         \* per entity: number of handler invocations that returned
    queues,           \* GetQueue.callback closure dict
    errors,           \* GetQueue / RemoveFromQueue closure list
    error_log,        \* number of _LOGGER.error calls
    ret               \* what the callback returned

vars == <<pc, op, data, return_response, selector, pending, entity_list, entities,
          cur, step, queued_entries, playing_qid, cmds, calls, returned, queues,
          errors, error_log, ret>>

----------------------------------------------------------------------------
(* Bounds and the small universe the inputs are drawn from.                *)

MaxQueue == 3

QidDom == {1, 2, 3}

HeosPlayers == {"media_player.a", "media_player.b"}

OtherEntities == {"media_player.x"}

AllEntities == HeosPlayers \cup OtherEntities

NoEntity == "none"

\* The entity platforms of the heos integration and the entities each one
\* would extract; media_player.b and media_player.x are reachable through both.
Platforms == <<"heos_1", "heos_2">>

PlatformEntities ==
    [p \in {"heos_1", "heos_2"} |->
        IF p = "heos_1" THEN AllEntities ELSE {"media_player.b", "media_player.x"}]

PlayerId(e) == IF e = "media_player.a" THEN 1 ELSE IF e = "media_player.b" THEN 2 ELSE 3

QueuedItem == [qid : QidDom]

\* What player/get_queue may answer.  media_player.a answers any queue of up to
\* MaxQueue items with qids 1 and 2 (repeated, unordered and missing qids
\* included), the other players a queue numbered 1..n as HEOS numbers it.
QueuePayloads(e) ==
    IF e = "media_player.a"
    THEN UNION {[1..n -> [qid : {1, 2}]] : n \in 0..MaxQueue}
    ELSE {[k \in 1..n |-> [qid |-> k]] : n \in 0..MaxQueue}

NowPlayingPayloads == [type : {"song", "station"}, qid : QidDom]

\* The payload the model hands over with a reply that carries none.
NoNowPlaying == [type |-> "song", qid |-> 1]

NoData == [k \in {} |-> 0]

ServiceData == {NoData} \cup {[queue_id |-> q] : q \in QidDom}

----------------------------------------------------------------------------
(* Pure helpers.                                                           *)

Digit(d) == <<"0", "1", "2", "3", "4", "5", "6", "7", "8", "9">>[d + 1]

RECURSIVE Str(_)
\* str(i) for a non-negative int: its decimal digits.
Str(n) == IF n < 10 THEN <<Digit(n)>> ELSE Str(n \div 10) \o <<Digit(n % 10)>>

RECURSIVE Join(_, _)
\* sep.join(parts)
Join(sep, parts) ==
    IF Len(parts) = 0 THEN <<>>
    ELSE IF Len(parts) = 1 THEN parts[1]
    ELSE parts[1] \o sep \o Join(sep, Tail(parts))

\* Mutant: the filter on the now-playing qid is left out.
QidsToRemove_Unfiltered(entries, playing) ==
    Join(<<",">>, [k \in 1..Len(entries) |-> Str(entries[k].qid)])

\* Mutant: the filter keeps the now-playing entries and drops the others.
QidsToRemove_OnlyPlaying(entries, playing) ==
    LET kept == SelectSeq(entries, LAMBDA i : i.qid = playing)
    IN  Join(<<",">>, [k \in 1..Len(kept) |-> Str(kept[k].qid)])

\* ",".join(map(str(i["qid"]), filter(i["qid"] != playing_qid, queued_entries)))
QidsToRemove(entries, playing) ==
    LET kept == SelectSeq(entries, LAMBDA i : i.qid # playing)
    IN  Join(<<",">>, [k \in 1..Len(kept) |-> Str(kept[k].qid)])

\* Mutant: the lists are chained, not made a set.
EntitySet_Chained(lists) ==
    [e \in AllEntities |-> Cardinality({k \in 1..Len(lists) : e \in lists[k]})]

\* {e for l in entity_list for e in l}: a set, every entity once.
EntitySet(lists) ==
    [e \in AllEntities |-> IF \E k \in 1..Len(lists) : e \in lists[k] THEN 1 ELSE 0]

\* Mutant: the isinstance test is inverted.
IsHeosMediaPlayer_Inverted(e) == e \notin HeosPlayers

\* isinstance(entity, HeosMediaPlayer)
IsHeosMediaPlayer(e) == e \in HeosPlayers

\* Mutant: the check for a missing queue_id is lost.
MissingQueueId_Unchecked(d) == FALSE

\* qid is None, for qid = service_call.data.get("queue_id")
MissingQueueId(d) == "queue_id" \notin DOMAIN d

\* Mutant: GetQueue's handler awaits its command outside the try.
TryBlocks_GetQueueBare(o) ==
    IF o = "clear_queue" THEN {"player/clear_queue"}
    ELSE IF o = "get_queue" THEN {}
    ELSE IF o = "remove_from_queue" THEN {"player/remove_from_queue"}
    ELSE {"player/get_queue", "player/get_now_playing_media",
          "player/remove_from_queue", "player/get_now_playing_media (after)"}

\* Mutant: the batched removal is awaited outside a try.
TryBlocks_RemoveBare(o) ==
    IF o = "clear_queue" THEN {"player/clear_queue"}
    ELSE IF o = "get_queue" THEN {"player/get_queue"}
    ELSE IF o = "remove_from_queue" THEN {"player/remove_from_queue"}
    ELSE {"player/get_queue", "player/get_now_playing_media",
          "player/get_now_playing_media (after)"}

\* The commands of each handler whose await sits in a try with except HeosError.
TryBlocks(o) ==
    IF o = "clear_queue" THEN {"player/clear_queue"}
    ELSE IF o = "get_queue" THEN {"player/get_queue"}
    ELSE IF o = "remove_from_queue" THEN {"player/remove_from_queue"}
    ELSE {"player/get_queue", "player/get_now_playing_media",
          "player/remove_from_queue", "player/get_now_playing_media (after)"}

\* Mutant: only an empty queue counts as sized correctly.
NothingToDo_EmptyOnly(entries) == Len(entries) < 1

\* len(queued_entries) <= 1
NothingToDo(entries) == Len(entries) <= 1

\* supports_response of each service: NONE, ONLY or OPTIONAL.
ResponseChoices(o) ==
    IF o = "get_queue" THEN {TRUE}
    ELSE IF o = "remove_from_queue" THEN {TRUE, FALSE}
    ELSE {FALSE}

----------------------------------------------------------------------------
(* State updates shared by the actions.                                    *)

Pending == [kind |-> "pending"]

None == [kind |-> "None"]

Replies == {"ok", "unsuccessful", "HeosError"}

\* A command as sent with connection.command(command, params); reply records
\* what the connection answered once the await resumes.
Command(c, e) == [command |-> c, pid |-> PlayerId(e), reply |-> "pending"]

RemoveCommand(e, q) ==
    [command |-> "player/remove_from_queue", pid |-> PlayerId(e), qid |-> q,
     reply |-> "pending"]

SetReply(log, r) == [log EXCEPT ![Len(log)].reply = r]

\* The handler's await resumes with reply r and the handler sends command c next.
\* The handler's other locals are left to the action.
ReplyThenSend(e, r, c, next) ==
    /\ cmds' = [cmds EXCEPT ![e] = Append(SetReply(@, r), c)]
    /\ step' = next
    /\ UNCHANGED <<pc, cur, returned, ret>>

\* The handler's await resumes with reply r and the handler returns None:
\* async_exec_command's for loop goes on.
ReplyThenReturn(e, r) ==
    /\ cmds' = [cmds EXCEPT ![e] = SetReply(@, r)]
    /\ step' = "none"
    /\ returned' = [returned EXCEPT ![e] = @ + 1]
    /\ cur' = NoEntity
    /\ queued_entries' = <<>>
    /\ playing_qid' = 0
    /\ UNCHANGED <<pc, ret>>

\* The await raises and no except clause of the handler is around it: the
\* exception leaves the handler, async_exec_command and the callback.
ReplyThenPropagate(e, r) ==
    /\ cmds' = [cmds EXCEPT ![e] = SetReply(@, r)]
    /\ step' = "none"
    /\ pc' = "raised"
    /\ cur' = NoEntity
    /\ queued_entries' = <<>>
    /\ playing_qid' = 0
    /\ UNCHANGED <<returned, ret>>

\* A HeosError raised by the awaited command is caught by the handler.
Caught(r) == r # "HeosError" \/ step \in TryBlocks(op)

callVars == <<op, data, return_response, selector>>

execVars == <<pending, entity_list, entities>>

localVars == <<queued_entries, playing_qid>>

handlerVars == <<cur, calls>>

resultVars == <<queues, errors, error_log>>

----------------------------------------------------------------------------
Init ==
    /\ pc = "idle"
    /\ op = "none"
    /\ data = NoData
    /\ return_response = FALSE
    /\ selector = {}
    /\ pending = <<>>
    /\ entity_list = <<>>
    /\ entities = [e \in AllEntities |-> 0]
    /\ cur = NoEntity
    /\ step = "none"
    /\ queued_entries = <<>>
    /\ playing_qid = 0
    /\ cmds = [e \in AllEntities |-> <<>>]
    /\ calls = [e \in AllEntities |-> 0]
    /\ returned = [e \in AllEntities |-> 0]
    /\ queues = [e \in {} |-> <<>>]
    /\ errors = <<>>
    /\ error_log = 0
    /\ ret = Pending

\* A callback runs up to the first await of async_exec_command.
EnterExec(o, s, d, rr) ==
    /\ pc = "idle"
    /\ op' = o
    /\ selector' = s
    /\ data' = d
    /\ return_response' = rr
    /\ pc' = "extract"
    /\ pending' = Platforms
    /\ UNCHANGED <<entity_list, entities, handlerVars, localVars, step, cmds,
                   returned, resultVars, ret>>

ClearQueue_callback ==
    \E s \in SUBSET AllEntities :
        EnterExec("clear_queue", s, NoData, FALSE)

ClearQueueExceptNowPlaying_callback ==
    \E s \in SUBSET AllEntities :
        EnterExec("clear_queue_except_now_playing", s, NoData, FALSE)

GetQueue_callback ==
    \E s \in SUBSET AllEntities :
        EnterExec("get_queue", s, NoData, TRUE)

RemoveFromQueue_callback ==
    \E s \in SUBSET AllEntities, d \in ServiceData,
       rr \in ResponseChoices("remove_from_queue") :
        IF MissingQueueId(d)
        THEN \* log the error and return None
             /\ pc = "idle"
             /\ op' = "remove_from_queue"
             /\ selector' = s
             /\ data' = d
             /\ return_response' = rr
             /\ error_log' = error_log + 1
             /\ ret' = None
             /\ pc' = "done"
             /\ UNCHANGED <<execVars, handlerVars, localVars, step, cmds, returned,
                            queues, errors>>
        ELSE IF "queue_id" \notin DOMAIN d
        THEN \* int(None) raises TypeError
             /\ pc = "idle"
             /\ op' = "remove_from_queue"
             /\ selector' = s
             /\ data' = d
             /\ return_response' = rr
             /\ pc' = "raised"
             /\ UNCHANGED <<execVars, handlerVars, localVars, step, cmds, returned,
                            resultVars, ret>>
        ELSE EnterExec("remove_from_queue", s, d, rr)

\* entity_list.append(await ep.async_extract_from_service(service_call)); after
\* the last platform the set of entities is built.
ExtractFromService ==
    /\ pc = "extract"
    /\ pending # <<>>
    /\ LET lists == Append(entity_list, selector \cap PlatformEntities[Head(pending)])
       IN  /\ entity_list' = lists
           /\ pending' = Tail(pending)
           /\ IF Tail(pending) = <<>>
              THEN entities' = EntitySet(lists) /\ pc' = "loop"
              ELSE UNCHANGED <<entities, pc>>
    /\ UNCHANGED <<callVars, handlerVars, localVars, step, cmds, returned,
                   resultVars, ret>>

\* Mutant: the for loop does not move on from an entity that is no
\* HeosMediaPlayer.
SkipEntity_NoAdvance ==
    \E e \in AllEntities :
        /\ pc = "loop"
        /\ step = "none"
        /\ entities[e] > 0
        /\ ~IsHeosMediaPlayer(e)
        /\ UNCHANGED vars

\* The for loop reaches an entity that is no HeosMediaPlayer: warn and continue.
SkipEntity ==
    \E e \in AllEntities :
        /\ pc = "loop"
        /\ step = "none"
        /\ entities[e] > 0
        /\ ~IsHeosMediaPlayer(e)
        /\ entities' = [entities EXCEPT ![e] = @ - 1]
        /\ UNCHANGED <<pc, callVars, pending, entity_list, handlerVars, localVars,
                       step, cmds, returned, resultVars, ret>>

\* Mutant: ClearQueueExceptNowPlaying starts with the now-playing fetch.
FirstCommand_NowPlayingFirst(o, e) ==
    IF o = "clear_queue" THEN Command("player/clear_queue", e)
    ELSE IF o = "remove_from_queue" THEN RemoveCommand(e, data.queue_id)
    ELSE IF o = "get_queue" THEN Command("player/get_queue", e)
    ELSE Command("player/get_now_playing_media", e)

\* The first command each handler sends.
FirstCommand(o, e) ==
    IF o = "clear_queue" THEN Command("player/clear_queue", e)
    ELSE IF o = "remove_from_queue" THEN RemoveCommand(e, data.queue_id)
    ELSE Command("player/get_queue", e)

\* Mutant: the handler is started without awaiting the one before it.
CallHandler_NotAwaited ==
    \E e \in AllEntities :
        /\ pc = "loop"
        /\ entities[e] > 0
        /\ IsHeosMediaPlayer(e)
        /\ entities' = [entities EXCEPT ![e] = @ - 1]
        /\ cur' = e
        /\ calls' = [calls EXCEPT ![e] = @ + 1]
        /\ LET c == FirstCommand(op, e)
           IN  /\ cmds' = [cmds EXCEPT ![e] = Append(@, c)]
               /\ step' = c.command
        /\ UNCHANGED <<pc, callVars, pending, entity_list, localVars, returned,
                       resultVars, ret>>

\* The for loop reaches a HeosMediaPlayer and awaits connection_callback, which
\* runs up to its first await.
CallHandler ==
    \E e \in AllEntities :
        /\ pc = "loop"
        /\ step = "none"
        /\ entities[e] > 0
        /\ IsHeosMediaPlayer(e)
        /\ entities' = [entities EXCEPT ![e] = @ - 1]
        /\ cur' = e
        /\ calls' = [calls EXCEPT ![e] = @ + 1]
        /\ LET c == FirstCommand(op, e)
           IN  /\ cmds' = [cmds EXCEPT ![e] = Append(@, c)]
               /\ step' = c.command
        /\ UNCHANGED <<pc, callVars, pending, entity_list, localVars, returned,
                       resultVars, ret>>

----------------------------------------------------------------------------
(* The handlers, resumed by the reply to the command they await.           *)

\* Mutant: a clear_queue that raised is tried once more.
ClearQueue_handler_Retry ==
    \E r \in Replies :
        /\ pc = "loop"
        /\ op = "clear_queue"
        /\ step = "player/clear_queue"
        /\ IF ~Caught(r) THEN
               ReplyThenPropagate(cur, r)
           ELSE IF r = "HeosError" /\ Len(cmds[cur]) < 2 THEN
               /\ ReplyThenSend(cur, r, Command("player/clear_queue", cur),
                                "player/clear_queue")
               /\ UNCHANGED localVars
           ELSE
               ReplyThenReturn(cur, r)
        /\ UNCHANGED <<callVars, execVars, calls, resultVars>>

\* ClearQueue handler: any response is ignored, a HeosError is logged.
ClearQueue_handler ==
    \E r \in Replies :
        /\ pc = "loop"
        /\ op = "clear_queue"
        /\ step = "player/clear_queue"
        /\ IF Caught(r) THEN ReplyThenReturn(cur, r) ELSE ReplyThenPropagate(cur, r)
        /\ UNCHANGED <<callVars, execVars, calls, resultVars>>

\* GetQueue handler: a successful response fills queues, a HeosError appends
\* to errors, an unsuccessful response leaves both alone.
GetQueue_handler ==
    \E r \in Replies, payload \in QueuePayloads(cur) :
        /\ pc = "loop"
        /\ op = "get_queue"
        /\ step = "player/get_queue"
        /\ r # "ok" => payload = <<>>
        /\ IF Caught(r) THEN ReplyThenReturn(cur, r) ELSE ReplyThenPropagate(cur, r)
        /\ queues' = IF r = "ok"
                     THEN [e \in DOMAIN queues \cup {cur} |->
                              IF e = cur THEN payload ELSE queues[e]]
                     ELSE queues
        /\ errors' = IF r = "HeosError" /\ Caught(r) THEN Append(errors, cur) ELSE errors
        /\ UNCHANGED <<callVars, execVars, calls, error_log>>

\* RemoveFromQueue handler: the response is not looked at, a HeosError appends
\* to errors.
RemoveFromQueue_handler ==
    \E r \in Replies :
        /\ pc = "loop"
        /\ op = "remove_from_queue"
        /\ step = "player/remove_from_queue"
        /\ IF Caught(r) THEN ReplyThenReturn(cur, r) ELSE ReplyThenPropagate(cur, r)
        /\ errors' = IF r = "HeosError" /\ Caught(r) THEN Append(errors, cur) ELSE errors
        /\ UNCHANGED <<callVars, execVars, calls, queues, error_log>>

\* ClearQueueExceptNowPlaying handler, resumed from player/get_queue.
ExceptNowPlaying_get_queue ==
    \E r \in Replies, payload \in QueuePayloads(cur) :
        /\ pc = "loop"
        /\ op = "clear_queue_except_now_playing"
        /\ step = "player/get_queue"
        /\ r # "ok" => payload = <<>>
        /\ IF ~Caught(r) THEN
               ReplyThenPropagate(cur, r)
           ELSE IF r # "ok" THEN
               ReplyThenReturn(cur, r)
           ELSE IF NothingToDo(payload) THEN
               ReplyThenReturn(cur, r)
           ELSE
               /\ ReplyThenSend(cur, r, Command("player/get_now_playing_media", cur),
                                "player/get_now_playing_media")
               /\ queued_entries' = payload
               /\ UNCHANGED playing_qid
        /\ UNCHANGED <<callVars, execVars, calls, resultVars>>

\* Mutant: the result of the first now-playing fetch is not looked at.
ExceptNowPlaying_now_playing_ResultUnchecked ==
    \E r \in Replies, now_playing \in NowPlayingPayloads :
        /\ pc = "loop"
        /\ op = "clear_queue_except_now_playing"
        /\ step = "player/get_now_playing_media"
        /\ IF ~Caught(r) THEN
               ReplyThenPropagate(cur, r)
           ELSE IF r = "HeosError" THEN
               ReplyThenReturn(cur, r)
           ELSE
               /\ playing_qid' = now_playing.qid
               /\ ReplyThenSend(cur, r,
                      RemoveCommand(cur, QidsToRemove(queued_entries, now_playing.qid)),
                      "player/remove_from_queue")
               /\ UNCHANGED queued_entries
        /\ UNCHANGED <<callVars, execVars, calls, resultVars>>

\* ClearQueueExceptNowPlaying handler, resumed from the first
\* player/get_now_playing_media: the batched removal is sent.
ExceptNowPlaying_now_playing ==
    \E r \in Replies, now_playing \in NowPlayingPayloads :
        /\ pc = "loop"
        /\ op = "clear_queue_except_now_playing"
        /\ step = "player/get_now_playing_media"
        /\ r # "ok" => now_playing = NoNowPlaying
        /\ IF ~Caught(r) THEN
               ReplyThenPropagate(cur, r)
           ELSE IF r # "ok" THEN
               ReplyThenReturn(cur, r)
           ELSE
               /\ playing_qid' = now_playing.qid
               /\ ReplyThenSend(cur, r,
                      RemoveCommand(cur, QidsToRemove(queued_entries, now_playing.qid)),
                      "player/remove_from_queue")
               /\ UNCHANGED queued_entries
        /\ UNCHANGED <<callVars, execVars, calls, resultVars>>

\* Mutant: a removal that did not succeed ends the handler like a failed fetch.
ExceptNowPlaying_remove_Fatal ==
    \E r \in Replies :
        /\ pc = "loop"
        /\ op = "clear_queue_except_now_playing"
        /\ step = "player/remove_from_queue"
        /\ IF ~Caught(r) THEN
               ReplyThenPropagate(cur, r)
           ELSE IF r # "ok" THEN
               ReplyThenReturn(cur, r)
           ELSE
               /\ ReplyThenSend(cur, r, Command("player/get_now_playing_media", cur),
                                "player/get_now_playing_media (after)")
               /\ UNCHANGED localVars
        /\ UNCHANGED <<callVars, execVars, calls, resultVars>>

\* ClearQueueExceptNowPlaying handler, resumed from player/remove_from_queue:
\* a HeosError is passed over, the response is not looked at.
ExceptNowPlaying_remove ==
    \E r \in Replies :
        /\ pc = "loop"
        /\ op = "clear_queue_except_now_playing"
        /\ step = "player/remove_from_queue"
        /\ IF ~Caught(r) THEN
               ReplyThenPropagate(cur, r)
           ELSE
               /\ ReplyThenSend(cur, r, Command("player/get_now_playing_media", cur),
                                "player/get_now_playing_media (after)")
               /\ UNCHANGED localVars
        /\ UNCHANGED <<callVars, execVars, calls, resultVars>>

\* ClearQueueExceptNowPlaying handler, resumed from the second
\* player/get_now_playing_media: a qid other than 1 is only logged.
ExceptNowPlaying_after ==
    \E r \in Replies, now_playing \in NowPlayingPayloads :
        /\ pc = "loop"
        /\ op = "clear_queue_except_now_playing"
        /\ step = "player/get_now_playing_media (after)"
        /\ r # "ok" => now_playing = NoNowPlaying
        /\ IF Caught(r) THEN ReplyThenReturn(cur, r) ELSE ReplyThenPropagate(cur, r)
        /\ error_log' = IF r = "ok" /\ now_playing.qid # 1
                        THEN error_log + 1
                        ELSE error_log
        /\ UNCHANGED <<callVars, execVars, calls, queues, errors>>

----------------------------------------------------------------------------
\* Mutant: every service answers with a body.
Response_BodyForAll(o) ==
    IF o = "get_queue"
    THEN [kind |-> "dict", count |-> Cardinality(DOMAIN queues), queues |-> queues,
          errors |-> errors]
    ELSE [kind |-> "dict", errors |-> errors]

\* Mutant: remove_from_queue answers with its errors whether asked or not.
Response_Always(o) ==
    IF o = "get_queue"
    THEN [kind |-> "dict", count |-> Cardinality(DOMAIN queues), queues |-> queues,
          errors |-> errors]
    ELSE IF o = "remove_from_queue"
    THEN [kind |-> "dict", errors |-> errors]
    ELSE None

\* What each callback returns once async_exec_command has returned.
Response(o) ==
    IF o = "get_queue"
    THEN [kind |-> "dict", count |-> Cardinality(DOMAIN queues), queues |-> queues,
          errors |-> errors]
    ELSE IF o = "remove_from_queue" /\ return_response
    THEN [kind |-> "dict", errors |-> errors]
    ELSE None

\* Mutant: the callback returns from inside the for loop.
Return_InsideLoop ==
    /\ pc = "loop"
    /\ step = "none"
    /\ \E e \in AllEntities : calls[e] > 0
    /\ pc' = "done"
    /\ ret' = Response(op)
    /\ UNCHANGED <<callVars, execVars, handlerVars, localVars, step, cmds, returned,
                   resultVars>>

\* The for loop has visited every entity: async_exec_command returns and the
\* callback returns its response.
Return ==
    /\ pc = "loop"
    /\ step = "none"
    /\ \A e \in AllEntities : entities[e] = 0
    /\ pc' = "done"
    /\ ret' = Response(op)
    /\ UNCHANGED <<callVars, execVars, handlerVars, localVars, step, cmds, returned,
                   resultVars>>

Next ==
    \/ ClearQueue_callback
    \/ ClearQueueExceptNowPlaying_callback
    \/ GetQueue_callback
    \/ RemoveFromQueue_callback
    \/ ExtractFromService
    \/ SkipEntity
    \/ CallHandler
    \/ ClearQueue_handler
    \/ GetQueue_handler
    \/ RemoveFromQueue_handler
    \/ ExceptNowPlaying_get_queue
    \/ ExceptNowPlaying_now_playing
    \/ ExceptNowPlaying_remove
    \/ ExceptNowPlaying_after
    \/ Return

Spec == Init /\ [][Next]_vars

\* The steps of a service call under way: the coroutine resumed by the event
\* loop, at an await of async_exec_command or with the reply to a command.
Running ==
    \/ ExtractFromService
    \/ SkipEntity
    \/ CallHandler
    \/ ClearQueue_handler
    \/ GetQueue_handler
    \/ RemoveFromQueue_handler
    \/ ExceptNowPlaying_get_queue
    \/ ExceptNowPlaying_now_playing
    \/ ExceptNowPlaying_remove
    \/ ExceptNowPlaying_after
    \/ Return

\* Every awaited platform and command answers in the end, by a response or by
\* raising, and the event loop then resumes the coroutine.  Whether a service
\* is called at all is left open.
FairSpec == Spec /\ WF_vars(Running)

----------------------------------------------------------------------------
(* Vocabulary of the properties.                                           *)

Range(f) == {f[k] : k \in DOMAIN f}

\* How often the selector yielded entity e, over all extraction paths.
Yielded(e) == Cardinality({k \in 1..Len(entity_list) : e \in entity_list[k]})

\* The resolved targets: the HEOS media players the selector yielded.
Targets == {e \in HeosPlayers : Yielded(e) > 0}

Finished == pc \in {"done", "raised"}

\* Positions in e's command log that hold command c.
Sent(e, c) == {k \in 1..Len(cmds[e]) : cmds[e][k].command = c}

\* The replies e's connection has given.
RepliesOf(e) == {cmds[e][k].reply : k \in 1..Len(cmds[e])}

Occurrences(seq, x) == Cardinality({k \in 1..Len(seq) : seq[k] = x})

DigitValue(c) == CHOOSE d \in 0..9 : Digit(d) = c

RECURSIVE ParseInt(_)
\* The number a string of digits denotes; -1 for the empty string.
ParseInt(str) ==
    IF Len(str) = 0 THEN -1
    ELSE IF Len(str) = 1 THEN DigitValue(str[1])
    ELSE 10 * ParseInt(SubSeq(str, 1, Len(str) - 1)) + DigitValue(str[Len(str)])

RECURSIVE Fields(_)
\* The comma-separated fields of a string.
Fields(str) ==
    IF \A k \in 1..Len(str) : str[k] # ","
    THEN <<str>>
    ELSE LET k == CHOOSE j \in 1..Len(str) :
                      str[j] = "," /\ \A m \in 1..(j - 1) : str[m] # ","
         IN  <<SubSeq(str, 1, k - 1)>> \o Fields(SubSeq(str, k + 1, Len(str)))

\* The ids a comma-joined id list carries (none for the empty list).
IdsOf(str) == IF str = <<>> THEN {} ELSE {ParseInt(f) : f \in Range(Fields(str))}

HasQueueId == "queue_id" \in DOMAIN data

----------------------------------------------------------------------------
(* C1: for every resolved target set, the empty one included, and every    *)
(* mix of command successes and failures, async_exec_command invokes the   *)
(* handler exactly once per target: no entity is called twice, none but a  *)
(* target is called or sent a command, and once the call has ended every   *)
(* target's handler has been called once and has returned once.            *)
C1_OneHandlerCallPerTarget ==
    /\ \A e \in AllEntities :
          /\ calls[e] <= 1
          /\ returned[e] <= calls[e]
          /\ calls[e] = 1 => e \in Targets
          /\ e \notin Targets => cmds[e] = <<>>
    /\ Finished => \A e \in Targets : calls[e] = 1 /\ returned[e] = 1

C1_Witness ==
    /\ pc = "done"
    /\ Targets = HeosPlayers
    /\ "HeosError" \in RepliesOf("media_player.a")
    /\ RepliesOf("media_player.b") = {"ok"}
    /\ \A e \in Targets : calls[e] = 1 /\ returned[e] = 1

(* C2: isolation.  When the connection of one target has raised, every     *)
(* other target of the call still has its handler called, its command sent *)
(* and answered, and its handler returned by the time the call ends.       *)
C2_FailureIsolated ==
    (Finished /\ \E f \in Targets : "HeosError" \in RepliesOf(f)) =>
        \A e \in Targets :
            /\ calls[e] = 1
            /\ returned[e] = 1
            /\ cmds[e] # <<>>
            /\ "pending" \notin RepliesOf(e)

C2_Witness ==
    /\ pc = "done"
    /\ op = "get_queue"
    /\ errors = <<"media_player.b">>
    /\ "media_player.a" \in DOMAIN queues
    /\ RepliesOf("media_player.b") = {"HeosError"}

(* C3: get_queue over N targets of which M fail (a raised error or an      *)
(* unsuccessful result) returns every target in exactly one of queues and  *)
(* errors: count = |queues| = N - M and errors has M entries.              *)
C3_QueuesAndErrorsPartitionTargets ==
    (pc = "done" /\ op = "get_queue") =>
        LET failed == {e \in Targets : RepliesOf(e) # {"ok"}}
        IN  /\ \A e \in Targets :
                  (e \in DOMAIN ret.queues) # (e \in Range(ret.errors))
            /\ ret.count = Cardinality(Targets) - Cardinality(failed)
            /\ Cardinality(DOMAIN ret.queues) = ret.count
            /\ Len(ret.errors) = Cardinality(failed)
            /\ \A e \in failed : e \notin DOMAIN ret.queues

(* C4: remove_from_queue called without a queue_id fails fast: the call    *)
(* ends at once with one logged validation error and no response body,     *)
(* no entity is extracted, no handler is called and no command is sent.    *)
C4_MissingQueueIdFailsFast ==
    (op = "remove_from_queue" /\ ~HasQueueId) =>
        /\ pc = "done"
        /\ ret = None
        /\ error_log = 1
        /\ entity_list = <<>>
        /\ \A e \in AllEntities : calls[e] = 0 /\ cmds[e] = <<>>

C4_Witness ==
    /\ op = "remove_from_queue"
    /\ ~HasQueueId
    /\ selector = AllEntities
    /\ return_response
    /\ pc = "done"
    /\ ret = None

(* C5: clear_queue_except_now_playing stops after the queue fetch when the *)
(* fetched queue has 0 or 1 entries: a handler that has sent its player    *)
(* anything after player/get_queue runs on a fetched queue of at least 2   *)
(* entries, and player/get_queue is sent first and once.                   *)
C5_ShortQueueStopsAfterFetch ==
    op = "clear_queue_except_now_playing" =>
        /\ (step # "none" /\ Len(cmds[cur]) > 1) => Len(queued_entries) >= 2
        /\ \A e \in AllEntities :
              cmds[e] # <<>> =>
                  /\ cmds[e][1].command = "player/get_queue"
                  /\ Cardinality(Sent(e, "player/get_queue")) = 1

\* The handler of media_player.a has returned after a successful queue fetch
\* without a further command, which the code does for a short queue only.
C5_Witness ==
    /\ op = "clear_queue_except_now_playing"
    /\ returned["media_player.a"] = 1
    /\ Len(cmds["media_player.a"]) = 1
    /\ cmds["media_player.a"][1].command = "player/get_queue"
    /\ cmds["media_player.a"][1].reply = "ok"

(* C6: with a fetched queue of at least 2 entries and a successful         *)
(* now-playing fetch, clear_queue_except_now_playing sends                 *)
(* player/remove_from_queue once, and the ids it carries are the qids of   *)
(* the fetched queue without the now-playing qid: no other id, none left   *)
(* out, never the now-playing qid.                                         *)
C6_RemovesAllButNowPlaying ==
    op = "clear_queue_except_now_playing" =>
        /\ \A e \in AllEntities :
              /\ Cardinality(Sent(e, "player/remove_from_queue")) <= 1
              /\ (Len(cmds[e]) >= 2 /\ cmds[e][2].reply = "ok") =>
                     /\ Sent(e, "player/remove_from_queue") = {3}
                     /\ cmds[e][3].pid = PlayerId(e)
        /\ (step # "none" /\ Len(cmds[cur]) >= 2 /\ cmds[cur][2].reply = "ok") =>
              /\ Len(queued_entries) >= 2
              /\ IdsOf(cmds[cur][3].qid) =
                     {queued_entries[k].qid : k \in 1..Len(queued_entries)}
                         \ {playing_qid}
              /\ playing_qid \notin IdsOf(cmds[cur][3].qid)

\* The spec's example: queue 1, 2, 3 with 2 playing, removal of 1 and 3.
C6_Witness ==
    /\ op = "clear_queue_except_now_playing"
    /\ step = "player/remove_from_queue"
    /\ queued_entries = <<[qid |-> 1], [qid |-> 2], [qid |-> 3]>>
    /\ playing_qid = 2
    /\ cmds[cur][3].qid = <<"1", ",", "3">>

(* C7: target resolution deduplicates.  An entity the selector yields more *)
(* than once, through several platforms, has its handler called at most    *)
(* once, and once the call is done it has been called once and has been    *)
(* sent the first command of the operation once.                           *)
C7_YieldedTwiceCalledOnce ==
    \A e \in HeosPlayers :
        Yielded(e) >= 2 =>
            /\ calls[e] <= 1
            /\ pc = "done" =>
                  /\ calls[e] = 1
                  /\ Cardinality(Sent(e, cmds[e][1].command)) = 1

C7_Witness ==
    /\ pc = "done"
    /\ Yielded("media_player.b") = 2
    /\ calls["media_player.b"] = 1
    /\ Len(cmds["media_player.b"]) = 1

(* C8: remove_from_queue with a queue_id returns the body {errors} exactly *)
(* when the caller asked for a response and nothing otherwise; either way  *)
(* every target has been sent the remove command for that queue_id.        *)
C8_BodyIffResponseRequested ==
    (pc = "done" /\ op = "remove_from_queue" /\ HasQueueId) =>
        /\ (ret.kind = "dict") <=> return_response
        /\ return_response => ret = [kind |-> "dict", errors |-> errors]
        /\ ~return_response => ret = None
        /\ \A e \in Targets :
              /\ Len(cmds[e]) = 1
              /\ cmds[e][1].command = "player/remove_from_queue"
              /\ cmds[e][1].qid = data.queue_id

C8_Witness ==
    /\ pc = "done"
    /\ op = "remove_from_queue"
    /\ HasQueueId
    /\ ~return_response
    /\ ret = None
    /\ Targets = HeosPlayers
    /\ \A e \in Targets : Len(cmds[e]) = 1

(* C9: the errors list of remove_from_queue holds exactly the targets      *)
(* whose remove command failed, each once: those whose call raised and     *)
(* those whose call returned an unsuccessful result, and no target whose   *)
(* call succeeded.                                                         *)
C9_ErrorsAreTheFailedTargets ==
    (pc = "done" /\ op = "remove_from_queue" /\ HasQueueId) =>
        \A e \in AllEntities :
            Occurrences(errors, e) =
                IF e \in Targets /\ RepliesOf(e) # {"ok"} THEN 1 ELSE 0

(* C10: no failure of a command escapes the operation.  Whatever a         *)
(* connection raises, the callback never ends by raising: it returns, and  *)
(* what it returns is a response body or nothing.                          *)
C10_NoErrorEscapes ==
    /\ pc # "raised"
    /\ pc = "done" => ret.kind \in {"None", "dict"}
    /\ pc # "done" => ret = Pending

C10_Witness ==
    /\ pc = "done"
    /\ op = "clear_queue_except_now_playing"
    /\ ret = None
    /\ \E e \in Targets :
          /\ Len(cmds[e]) = 4
          /\ cmds[e][3].reply = "HeosError"
          /\ cmds[e][4].reply = "HeosError"


\* The commands of ClearQueueExceptNowPlaying.handler, in the order of the code.
ExceptNowPlayingOrder ==
    <<"player/get_queue", "player/get_now_playing_media", "player/remove_from_queue",
      "player/get_now_playing_media">>

\* The entities with a command awaiting its reply.
InFlight == {e \in AllEntities : "pending" \in RepliesOf(e)}

(* C11: within one player's clear_queue_except_now_playing sequence the    *)
(* commands go out in the order get_queue, get_now_playing_media,          *)
(* remove_from_queue, get_now_playing_media, at most four of them, and     *)
(* each one only after the reply to the one before: only the last command  *)
(* sent to a player can be awaiting its reply, and only while that         *)
(* player's handler runs.                                                  *)
C11_OrderedOneAtATime ==
    op = "clear_queue_except_now_playing" =>
        \A e \in AllEntities :
            /\ Len(cmds[e]) <= 4
            /\ \A k \in 1..Len(cmds[e]) :
                  /\ cmds[e][k].command = ExceptNowPlayingOrder[k]
                  /\ k < Len(cmds[e]) => cmds[e][k].reply # "pending"
            /\ e \in InFlight => (e = cur /\ step # "none")

C11_Witness ==
    /\ op = "clear_queue_except_now_playing"
    /\ step = "player/get_now_playing_media (after)"
    /\ Len(cmds[cur]) = 4
    /\ cmds[cur][4].reply = "pending"
    /\ \A k \in 1..3 : cmds[cur][k].reply # "pending"


(* C12: in clear_queue_except_now_playing a failed queue fetch or a failed *)
(* first now-playing fetch, raised or unsuccessful, ends the player's      *)
(* sequence: a player is sent a further command only after a successful    *)
(* reply to each of its first two, its handler has returned once such a    *)
(* fetch has failed, and remove_from_queue is sent only after both         *)
(* fetches succeeded.                                                      *)
C12_FailedFetchAborts ==
    op = "clear_queue_except_now_playing" =>
        \A e \in AllEntities :
            /\ \A k \in 1..Len(cmds[e]) :
                  (k <= 2 /\ cmds[e][k].reply \in {"unsuccessful", "HeosError"}) =>
                      /\ Len(cmds[e]) = k
                      /\ returned[e] = 1
                      /\ ~(e = cur /\ step # "none")
            /\ Sent(e, "player/remove_from_queue") # {} =>
                  cmds[e][1].reply = "ok" /\ cmds[e][2].reply = "ok"

\* One player stopped at a raised queue fetch, the other at an unsuccessful
\* first now-playing fetch.
C12_Witness ==
    /\ op = "clear_queue_except_now_playing"
    /\ pc = "done"
    /\ \E e \in Targets : Len(cmds[e]) = 1 /\ cmds[e][1].reply = "HeosError"
    /\ \E e \in Targets :
          /\ Len(cmds[e]) = 2
          /\ cmds[e][1].reply = "ok"
          /\ cmds[e][2].reply = "unsuccessful"


(* C13: a failed batched removal is not fatal.  Once the reply to a        *)
(* player's remove_from_queue is in, be it a success, an unsuccessful      *)
(* result or a raised error, the second get_now_playing_media has been     *)
(* sent to that player.                                                    *)
C13_RemoveFailureNotFatal ==
    op = "clear_queue_except_now_playing" =>
        \A e \in AllEntities :
            \A k \in Sent(e, "player/remove_from_queue") :
                cmds[e][k].reply # "pending" =>
                    /\ Len(cmds[e]) = k + 1
                    /\ cmds[e][k + 1].command = "player/get_now_playing_media"
                    /\ cmds[e][k + 1].pid = PlayerId(e)

C13_Witness ==
    /\ op = "clear_queue_except_now_playing"
    /\ Len(cmds["media_player.a"]) = 4
    /\ cmds["media_player.a"][3].reply = "HeosError"
    /\ Len(cmds["media_player.b"]) = 4
    /\ cmds["media_player.b"][3].reply = "unsuccessful"
    /\ cmds["media_player.b"][4].reply = "ok"


(* C14: no retries.  In one call clear_queue, get_queue and                *)
(* remove_from_queue send one command to each target and none to anything  *)
(* else; clear_queue_except_now_playing sends each of its four steps at    *)
(* most once; and a command that failed is never followed by the same      *)
(* command to the same player.                                             *)
C14_NoRetries ==
    \A e \in AllEntities :
        /\ op # "clear_queue_except_now_playing" =>
              /\ Len(cmds[e]) <= 1
              /\ (Finished /\ e \in Targets) => Len(cmds[e]) = 1
        /\ op = "clear_queue_except_now_playing" =>
              /\ Cardinality(Sent(e, "player/get_queue")) <= 1
              /\ Cardinality(Sent(e, "player/remove_from_queue")) <= 1
              /\ Sent(e, "player/get_now_playing_media") \subseteq {2, 4}
        /\ \A j, k \in 1..Len(cmds[e]) :
              (j < k /\ cmds[e][j].command = cmds[e][k].command) =>
                  cmds[e][j].reply = "ok"

C14_Witness ==
    /\ pc = "done"
    /\ op = "clear_queue"
    /\ Len(cmds["media_player.a"]) = 1
    /\ cmds["media_player.a"][1].reply = "HeosError"
    /\ Len(cmds["media_player.b"]) = 1
    /\ cmds["media_player.b"][1].reply = "unsuccessful"


\* The targets the for loop has not reached yet.
NotYetCalled == {e \in Targets : entities[e] > 0}

C16_ReturnsAfterAllHandlers ==
    (pc = "done" \/ ret # Pending) =>
        /\ InFlight = {}
        /\ step = "none"
        /\ \A e \in Targets :
              /\ entities[e] = 0
              /\ calls[e] = 1
              /\ returned[e] = 1
              /\ cmds[e] # <<>>

C16_Witness ==
    /\ pc = "done"
    /\ op = "get_queue"
    /\ Targets = HeosPlayers
    /\ ret.count = 1
    /\ ret.errors = <<"media_player.a">>
    /\ \A e \in Targets : returned[e] = 1


\* The qids of the queue the running handler fetched.
FetchedQids == {queued_entries[k].qid : k \in 1..Len(queued_entries)}

\* The number of ids a comma-joined id list carries.
IdCount(str) == IF str = <<>> THEN 0 ELSE Len(Fields(str))

\* The running ClearQueueExceptNowPlaying handler has sent its removal and
\* still holds the now-playing qid the removal was computed from.
RemovalSent ==
    /\ op = "clear_queue_except_now_playing"
    /\ step \in {"player/remove_from_queue", "player/get_now_playing_media (after)"}

(* C17, as claimed: the now-playing qid of step 3 is always one of the     *)
(* entries of the queue fetched in step 1, so the removal never carries    *)
(* every entry of the fetched queue.                                       *)
C17_NowPlayingIsAFetchedEntry ==
    RemovalSent =>
        /\ playing_qid \in FetchedQids
        /\ IdCount(cmds[cur][3].qid) < Len(queued_entries)

(* C17, amended: the now-playing qid need not be among the fetched         *)
(* entries.  The removal leaves out exactly the fetched entries that carry *)
(* the now-playing qid: when there is such an entry the removal never      *)
(* carries every entry, and when there is none it carries all of them.     *)
C17_RetainsOnlyMatchingEntries ==
    RemovalSent =>
        LET matching == {k \in 1..Len(queued_entries) :
                            queued_entries[k].qid = playing_qid}
            removal  == cmds[cur][3].qid
        IN  /\ IdCount(removal) = Len(queued_entries) - Cardinality(matching)
            /\ playing_qid \in FetchedQids =>
                  /\ IdCount(removal) < Len(queued_entries)
                  /\ IdsOf(removal) = FetchedQids \ {playing_qid}
            /\ playing_qid \notin FetchedQids =>
                  /\ IdCount(removal) = Len(queued_entries)
                  /\ IdsOf(removal) = FetchedQids

\* The track changed between the two calls: the queue 1, 2 was fetched, 3 is
\* now playing, and both fetched entries are removed.
C17_Witness ==
    /\ RemovalSent
    /\ cur = "media_player.b"
    /\ queued_entries = <<[qid |-> 1], [qid |-> 2]>>
    /\ playing_qid = 3
    /\ cmds[cur][3].qid = <<"1", ",", "2">>


(* C18: clear_queue and clear_queue_except_now_playing return no response  *)
(* body in every execution.  Failed commands and the logged mismatch of    *)
(* the now-playing qid after the removal change nothing in what the caller *)
(* receives, and no player is recorded as failed.                          *)
C18_FireAndForgetReturnsNothing ==
    op \in {"clear_queue", "clear_queue_except_now_playing"} =>
        /\ ret \in {Pending, None}
        /\ pc = "done" => ret = None
        /\ errors = <<>>
        /\ DOMAIN queues = {}
        /\ ~return_response

\* One player's last now-playing qid was not 1, which was logged, the other
\* player's commands failed, and the caller got nothing.
C18_Witness ==
    /\ pc = "done"
    /\ op = "clear_queue_except_now_playing"
    /\ ret = None
    /\ error_log = 1
    /\ Len(cmds["media_player.a"]) = 4
    /\ cmds["media_player.a"][4].reply = "ok"
    /\ RepliesOf("media_player.b") = {"HeosError"}


\* The coroutine's own steps, which wait for no reply of a connection.
OwnStep == ExtractFromService \/ SkipEntity \/ CallHandler \/ Return

(* C19: termination.  Provided every awaited command answers in the end,   *)
(* by a response or by raising, every call of any of the four services     *)
(* returns to its caller.  No loop or wait of async_exec_command or of a    *)
(* handler holds the call up: while the call is under way and no command   *)
(* awaits its reply, the code has a step of its own to take.               *)
C19_EveryCallReturns ==
    /\ [](((pc \in {"extract", "loop"}) /\ InFlight = {}) => ENABLED OwnStep)
    /\ (pc # "idle") ~> (pc = "done" /\ ret # Pending)

\* A call over every entity has returned after four answered commands to
\* each player, failed ones among them, and a skipped entity.
C19_Witness ==
    /\ pc = "done"
    /\ ret # Pending
    /\ selector = AllEntities
    /\ \A e \in AllEntities : entities[e] = 0
    /\ \A e \in HeosPlayers :
          /\ Len(cmds[e]) = 4
          /\ "pending" \notin RepliesOf(e)
    /\ "HeosError" \in RepliesOf("media_player.a")
    /\ "unsuccessful" \in RepliesOf("media_player.b")


\* The entries of the queue the running handler fetched carry pairwise distinct qids.
DistinctQids ==
    \A j, k \in 1..Len(queued_entries) :
        queued_entries[j].qid = queued_entries[k].qid => j = k

(* C20: when the fetched queue has at least 2 entries with pairwise        *)
(* distinct qids, the remove_from_queue command of                         *)
(* clear_queue_except_now_playing never carries an empty id list, whatever *)
(* the now-playing qid, in the fetched queue or not: it carries all the    *)
(* entries but at most one.                                                *)
C20_RemovalNeverEmpty ==
    (RemovalSent /\ Len(queued_entries) >= 2 /\ DistinctQids) =>
        /\ cmds[cur][3].command = "player/remove_from_queue"
        /\ cmds[cur][3].qid # <<>>
        /\ IdsOf(cmds[cur][3].qid) # {}
        /\ IdCount(cmds[cur][3].qid) >= Len(queued_entries) - 1

\* The queue 2, 1 was fetched with 1 playing: the removal carries 2 alone.
C20_Witness ==
    /\ RemovalSent
    /\ cur = "media_player.a"
    /\ queued_entries = <<[qid |-> 2], [qid |-> 1]>>
    /\ DistinctQids
    /\ playing_qid = 1
    /\ cmds[cur][3].qid = <<"2">>

====
